---- MODULE Spec2Model ----
(***************************************************************************)
(* vex-lang-types: the branded value constructors and the metadata table   *)
(* of src/Types.ts, and the TypeMapper of src/TypeMapper.ts, as a state    *)
(* machine whose actions are the calls a client can make.                  *)
(*                                                                         *)
(* A JavaScript value is a record [type, val]: a string, a function or an  *)
(* object reached through the prototype chain, or undefined.  A JavaScript *)
(* number is a record [k, neg, hi, lo, frac] whose magnitude is            *)
(* hi * 2^30 + lo + 0.frac (frac: decimal digits, no trailing zero), so    *)
(* that 2^31 and 2^53 are held exactly.                                    *)
(***************************************************************************)
EXTENDS Integers, Sequences, FiniteSets

VARIABLES op, arg, result, metadata, fn, file, mapper, history

vars == <<op, arg, result, metadata, fn, file, mapper, history>>

(* ------------------------------ bounds -------------------------------- *)

\* values within MaxDelta of each numeric boundary are tried
MaxDelta == 2
\* array annotations and array literals nest at most this deep
MaxDepth == 2
\* tuple annotations have at most this many elements
MaxTupleLen == 2
\* array literals have at most this many elements
MaxElems == 2
\* a callable descriptor has at most this many parameters
MaxParams == 2
\* a source file of a mapping session declares at most this many nodes
MaxNodes == 2
\* a mapping session makes at most this many calls
MaxCalls == 3

(* --------------------------- JavaScript values ------------------------ *)

Str(s) == [type |-> "string", val |-> s]
Undefined == [type |-> "undefined", val |-> ""]
Function(name) == [type |-> "function", val |-> name]
ObjectPrototype == [type |-> "object", val |-> "Object.prototype"]

\* what a template literal or string concatenation makes of a value
JSToString(v) ==
    CASE v.type = "string" -> v.val
      [] v.type = "function" -> "function " \o v.val \o "() { [native code] }"
      [] v.type = "object" -> "[object Object]"
      [] OTHER -> "undefined"

Truthy(v) == v.type # "undefined" /\ ~(v.type = "string" /\ v.val = "")

\* a || b
OrElse(a, b) == IF Truthy(a) THEN a ELSE b

\* the properties every object literal inherits from Object.prototype
ObjectPrototypeKeys ==
    {"constructor", "toString", "toLocaleString", "valueOf", "hasOwnProperty",
     "isPrototypeOf", "propertyIsEnumerable", "__proto__"}

\* obj[key] on an object literal whose own properties are those of table
GetProperty(table, key) ==
    IF key \in DOMAIN table THEN table[key]
    ELSE IF key = "__proto__" THEN ObjectPrototype
    ELSE IF key \in ObjectPrototypeKeys THEN Function(IF key = "constructor" THEN "Object" ELSE key)
    ELSE Undefined

\* Array.prototype.join on strings
RECURSIVE Join(_, _)
Join(strs, sep) ==
    IF Len(strs) = 0 THEN ""
    ELSE IF Len(strs) = 1 THEN strs[1]
    ELSE strs[1] \o sep \o Join(Tail(strs), sep)

(* --------------------------- JavaScript numbers ----------------------- *)

Base == 2 ^ 30

Fin(neg, hi, lo, frac) == [k |-> "fin", neg |-> neg, hi |-> hi, lo |-> lo, frac |-> frac]
NaN == [k |-> "nan", neg |-> FALSE, hi |-> 0, lo |-> 0, frac |-> << >>]
Infinity(neg) == [k |-> "inf", neg |-> neg, hi |-> 0, lo |-> 0, frac |-> << >>]

\* a whole number of magnitude hi * 2^30 + lo
Whole(neg, hi, lo) == Fin(neg, hi, lo, << >>)

NumberIsInteger(v) == v.k = "fin" /\ v.frac = << >>

\* compare two decimal fractions digit by digit: -1, 0 or 1
RECURSIVE FracCmp(_, _)
FracCmp(f, g) ==
    IF f = << >> /\ g = << >> THEN 0
    ELSE IF f = << >> THEN -1
    ELSE IF g = << >> THEN 1
    ELSE IF f[1] < g[1] THEN -1
    ELSE IF f[1] > g[1] THEN 1
    ELSE FracCmp(Tail(f), Tail(g))

MagCmp(a, b) ==
    IF a.k = "inf" /\ b.k = "inf" THEN 0
    ELSE IF a.k = "inf" THEN 1
    ELSE IF b.k = "inf" THEN -1
    ELSE IF a.hi # b.hi THEN (IF a.hi < b.hi THEN -1 ELSE 1)
    ELSE IF a.lo # b.lo THEN (IF a.lo < b.lo THEN -1 ELSE 1)
    ELSE FracCmp(a.frac, b.frac)

\* the order of two numbers neither of which is NaN: -1, 0 or 1
NumCmp(a, b) ==
    IF a.neg /\ ~b.neg THEN -1
    ELSE IF ~a.neg /\ b.neg THEN 1
    ELSE IF a.neg THEN 0 - MagCmp(a, b)
    ELSE MagCmp(a, b)

Comparable(a, b) == a.k # "nan" /\ b.k # "nan"

\* the relational operators: every comparison with NaN is false
LT(a, b) == Comparable(a, b) /\ NumCmp(a, b) < 0
GT(a, b) == Comparable(a, b) /\ NumCmp(a, b) > 0
LE(a, b) == Comparable(a, b) /\ NumCmp(a, b) <= 0
GE(a, b) == Comparable(a, b) /\ NumCmp(a, b) >= 0

INT16_MIN == Whole(TRUE, 0, 32768)
INT16_MAX == Whole(FALSE, 0, 32767)
INT32_MIN == Whole(TRUE, 2, 0)
INT32_MAX == Whole(FALSE, 1, Base - 1)
MIN_SAFE_INTEGER == Whole(TRUE, 2 ^ 23 - 1, Base - 1)
MAX_SAFE_INTEGER == Whole(FALSE, 2 ^ 23 - 1, Base - 1)

(* ------------------------ bounded value constructors ------------------ *)

Throw(error) == [type |-> "throw", val |-> error]
Return(v) == [type |-> "return", val |-> v]

int(value) ==
    IF ~NumberIsInteger(value) THEN Throw("TypeError")
    ELSE IF LT(value, INT32_MIN) \/ GT(value, INT32_MAX) THEN Throw("RangeError")
    ELSE Return(value)

\* short with the upper bound excluded
short_OffByOne(value) ==
    IF ~NumberIsInteger(value) THEN Throw("TypeError")
    ELSE IF LT(value, INT16_MIN) \/ GE(value, INT16_MAX) THEN Throw("RangeError")
    ELSE Return(value)

short(value) ==
    IF ~NumberIsInteger(value) THEN Throw("TypeError")
    ELSE IF LT(value, INT16_MIN) \/ GT(value, INT16_MAX) THEN Throw("RangeError")
    ELSE Return(value)

long(value) ==
    IF ~NumberIsInteger(value) THEN Throw("TypeError")
    ELSE IF LT(value, MIN_SAFE_INTEGER) \/ GT(value, MAX_SAFE_INTEGER) THEN Throw("RangeError")
    ELSE Return(value)

(* ------------------------------ metadata ------------------------------ *)

Metadata(rec) == [type |-> "metadata", val |-> rec]

TYPE_METADATA ==
    [int |-> Metadata([name |-> "int", cppType |-> "int32_t", size |-> 4,
                       min |-> INT32_MIN, max |-> INT32_MAX]),
     short |-> Metadata([name |-> "short", cppType |-> "int16_t", size |-> 2,
                         min |-> INT16_MIN, max |-> INT16_MAX]),
     long |-> Metadata([name |-> "long", cppType |-> "int64_t", size |-> 8,
                        min |-> MIN_SAFE_INTEGER, max |-> MAX_SAFE_INTEGER]),
     float |-> Metadata([name |-> "float", cppType |-> "float", size |-> 4]),
     double |-> Metadata([name |-> "double", cppType |-> "double", size |-> 8]),
     bool |-> Metadata([name |-> "bool", cppType |-> "bool", size |-> 1]),
     char |-> Metadata([name |-> "char", cppType |-> "char", size |-> 1]),
     string |-> Metadata([name |-> "string", cppType |-> "std::string", size |-> 0 - 1]),
     void |-> Metadata([name |-> "void", cppType |-> "void", size |-> 0])]

\* v?.field: undefined for undefined, and for a value that has no such property
OptionalField(v, field) ==
    IF v.type = "metadata" /\ field \in DOMAIN v.val
    THEN (IF field \in {"name", "cppType"} THEN Str(v.val[field]) ELSE [type |-> "number", val |-> v.val[field]])
    ELSE Undefined

\* getCppType without the || 'auto'
getCppType_NoFallback(typeName) ==
    OptionalField(GetProperty(metadata, typeName), "cppType")

getCppType(typeName) ==
    OrElse(OptionalField(GetProperty(metadata, typeName), "cppType"), Str("auto"))

\* isWithinBounds with exclusive bounds
isWithinBounds_Exclusive(value, typeName) ==
    LET m == GetProperty(metadata, typeName)
    IN  IF ~Truthy(m) \/ OptionalField(m, "min").type = "undefined"
                      \/ OptionalField(m, "max").type = "undefined"
        THEN TRUE
        ELSE GT(value, m.val.min) /\ LT(value, m.val.max)

isWithinBounds(value, typeName) ==
    LET m == GetProperty(metadata, typeName)
    IN  IF ~Truthy(m) \/ OptionalField(m, "min").type = "undefined"
                      \/ OptionalField(m, "max").type = "undefined"
        THEN TRUE
        ELSE GE(value, m.val.min) /\ LE(value, m.val.max)

\* Array.prototype.map over the parameters, each rendered by the template literal
RECURSIVE RenderParameters(_)
RenderParameters(parameters) ==
    IF parameters = << >> THEN << >>
    ELSE <<JSToString(getCppType(parameters[1].type)) \o " " \o parameters[1].name>>
         \o RenderParameters(Tail(parameters))

getCppSignature(f) ==
    LET params == Join(RenderParameters(f.parameters), ", ")
    IN  Str(JSToString(getCppType(f.returnType)) \o " " \o f.name \o "(" \o params \o ")")

(* ------------------------------ syntax nodes -------------------------- *)

\* an absent optional child (declaration.type, declaration.initializer)
None == [kind |-> "none"]

\* a type node that is neither an array type nor a tuple type; text is getText()
NamedType(text) == [kind |-> "NamedType", text |-> text]
ArrayType(elementType) == [kind |-> "ArrayType", elementType |-> elementType]
TupleType(elements) == [kind |-> "TupleType", elements |-> elements]

StringLiteral == [kind |-> "StringLiteral"]
TrueKeyword == [kind |-> "TrueKeyword"]
FalseKeyword == [kind |-> "FalseKeyword"]
\* an identifier, a prefix-unary expression such as -5, an object literal, ...
OtherExpression(kind) == [kind |-> kind]
\* source: the literal as written: whole [. frac] [e exp]
NumericLiteral(source) == [kind |-> "NumericLiteral", source |-> source]
ArrayLiteralExpression(elements) == [kind |-> "ArrayLiteralExpression", elements |-> elements]
\* expression: the callee's getText()
CallExpression(expression, arguments) ==
    [kind |-> "CallExpression", expression |-> expression, arguments |-> arguments]

VariableDeclaration(type, initializer) ==
    [kind |-> "VariableDeclaration", type |-> type, initializer |-> initializer]
FunctionDeclaration(type) == [kind |-> "FunctionDeclaration", type |-> type]
ParameterDeclaration(type, initializer) ==
    [kind |-> "ParameterDeclaration", type |-> type, initializer |-> initializer]

(* ------------------------ numeric literal text ------------------------ *)

RECURSIVE StripTrailingZeros(_)
StripTrailingZeros(digits) ==
    IF digits = << >> THEN << >>
    ELSE IF digits[Len(digits)] = 0 THEN StripTrailingZeros(SubSeq(digits, 1, Len(digits) - 1))
    ELSE digits

\* the value of whole.frac * 10^exp as [hi, lo, frac]; exp # 0 only for whole < 2^30 / 10
RECURSIVE ScaleDecimal(_, _, _)
ScaleDecimal(whole, frac, exp) ==
    IF exp = 0 THEN [hi |-> whole.hi, lo |-> whole.lo, frac |-> StripTrailingZeros(frac)]
    ELSE IF exp > 0
    THEN ScaleDecimal([hi |-> 0, lo |-> whole.lo * 10 + (IF frac = << >> THEN 0 ELSE frac[1])],
                      IF frac = << >> THEN << >> ELSE Tail(frac), exp - 1)
    ELSE ScaleDecimal([hi |-> 0, lo |-> whole.lo \div 10], <<whole.lo % 10>> \o frac, exp + 1)

IsZeroLiteral(source) == source.whole = [hi |-> 0, lo |-> 0] /\ StripTrailingZeros(source.frac) = << >>

\* NumericLiteral.text: the scanner stores "" + (+lexeme), the canonical decimal
\* string of the literal's value, not the lexeme; source.huge marks an exponent
\* beyond the double range (1e400), whose value is Infinity unless the digits are 0
NumericLiteralText(source) ==
    IF source.huge /\ ~IsZeroLiteral(source)
    THEN [special |-> "Infinity", hi |-> 0, lo |-> 0, frac |-> << >>]
    ELSE LET v == ScaleDecimal(source.whole, source.frac, IF source.huge THEN 0 ELSE source.exp)
         IN  [special |-> "", hi |-> v.hi, lo |-> v.lo, frac |-> v.frac]

\* text.includes('.')
IncludesDot(text) == text.special = "" /\ text.frac # << >>

parseFloat(text) ==
    IF text.special = "Infinity" THEN Infinity(FALSE)
    ELSE Fin(FALSE, text.hi, text.lo, text.frac)

(* ------------------------------ TypeMapper ---------------------------- *)

\* typeMap with long given the representation of int
typeMap_LongAsInt ==
    [int |-> Str("int32_t"), short |-> Str("int16_t"), long |-> Str("int32_t"),
     float |-> Str("float"), double |-> Str("double"), bool |-> Str("bool"),
     boolean |-> Str("bool"), char |-> Str("char"), string |-> Str("std::string"),
     number |-> Str("double"), void |-> Str("void"), any |-> Str("auto")]

typeMap ==
    [int |-> Str("int32_t"), short |-> Str("int16_t"), long |-> Str("int64_t"),
     float |-> Str("float"), double |-> Str("double"), bool |-> Str("bool"),
     boolean |-> Str("bool"), char |-> Str("char"), string |-> Str("std::string"),
     number |-> Str("double"), void |-> Str("void"), any |-> Str("auto")]

typeConstructors ==
    [int |-> Str("int32_t"), short |-> Str("int16_t"), long |-> Str("int64_t"),
     float |-> Str("float"), double |-> Str("double"), bool |-> Str("bool"),
     char |-> Str("char"), string |-> Str("std::string")]

RECURSIVE mapTypeNode(_)
RECURSIVE MapElements(_)

\* typeNode.elements.map(el => this.mapTypeNode(el)), each as join renders it
MapElements(elements) ==
    IF elements = << >> THEN << >>
    ELSE <<JSToString(mapTypeNode(elements[1]))>> \o MapElements(Tail(elements))

\* mapTypeNode that looks the element type of an array up instead of mapping it
mapTypeNode_Flat(typeNode) ==
    IF typeNode.kind = "ArrayType"
    THEN Str("std::vector<"
             \o JSToString(IF typeNode.elementType.kind = "NamedType"
                           THEN OrElse(GetProperty(typeMap, typeNode.elementType.text), Str("auto"))
                           ELSE Str("auto"))
             \o ">")
    ELSE IF typeNode.kind = "TupleType"
    THEN Str("std::tuple<" \o Join(MapElements(typeNode.elements), ", ") \o ">")
    ELSE OrElse(GetProperty(typeMap, typeNode.text), Str("auto"))

mapTypeNode(typeNode) ==
    IF typeNode.kind = "ArrayType"
    THEN Str("std::vector<" \o JSToString(mapTypeNode(typeNode.elementType)) \o ">")
    ELSE IF typeNode.kind = "TupleType"
    THEN Str("std::tuple<" \o Join(MapElements(typeNode.elements), ", ") \o ">")
    ELSE OrElse(GetProperty(typeMap, typeNode.text), Str("auto"))

InferNumericLiteral(expr) ==
    LET text == NumericLiteralText(expr.source)
        value == parseFloat(text)
    IN  IF IncludesDot(text) THEN Str("double")
        ELSE IF NumberIsInteger(value)
        THEN (IF GE(value, INT16_MIN) /\ LE(value, INT16_MAX) THEN Str("int16_t")
              ELSE IF GE(value, INT32_MIN) /\ LE(value, INT32_MAX) THEN Str("int32_t")
              ELSE Str("int64_t"))
        ELSE Str("double")

InferCallExpression(expr) ==
    LET funcName == expr.expression
    IN  IF Truthy(GetProperty(typeConstructors, funcName))
        THEN GetProperty(typeConstructors, funcName)
        ELSE Str("auto")

RECURSIVE inferFromExpression(_)

\* inferFromExpression that infers an array literal from its last element
inferFromExpression_LastElement(expr) ==
    IF expr.kind = "StringLiteral" THEN Str("std::string")
    ELSE IF expr.kind = "NumericLiteral" THEN InferNumericLiteral(expr)
    ELSE IF expr.kind = "TrueKeyword" \/ expr.kind = "FalseKeyword" THEN Str("bool")
    ELSE IF expr.kind = "ArrayLiteralExpression"
    THEN (IF Len(expr.elements) > 0
          THEN Str("std::vector<"
                   \o JSToString(inferFromExpression(expr.elements[Len(expr.elements)])) \o ">")
          ELSE Str("std::vector<auto>"))
    ELSE IF expr.kind = "CallExpression" THEN InferCallExpression(expr)
    ELSE Str("auto")

inferFromExpression(expr) ==
    IF expr.kind = "StringLiteral" THEN Str("std::string")
    ELSE IF expr.kind = "NumericLiteral" THEN InferNumericLiteral(expr)
    ELSE IF expr.kind = "TrueKeyword" \/ expr.kind = "FalseKeyword" THEN Str("bool")
    ELSE IF expr.kind = "ArrayLiteralExpression"
    THEN (IF Len(expr.elements) > 0
          THEN Str("std::vector<" \o JSToString(inferFromExpression(expr.elements[1])) \o ">")
          ELSE Str("std::vector<auto>"))
    ELSE IF expr.kind = "CallExpression" THEN InferCallExpression(expr)
    ELSE Str("auto")

\* getVariableType that keeps the declarations it has mapped and answers the
\* fallback for one it meets again
getVariableType_Revisited(declaration) ==
    IF \E k \in DOMAIN history :
           history[k].op = "getVariableType" /\ file[history[k].index] = declaration
    THEN Str("auto")
    ELSE IF declaration.type.kind # "none" THEN mapTypeNode(declaration.type)
    ELSE IF declaration.initializer.kind # "none" THEN inferFromExpression(declaration.initializer)
    ELSE Str("auto")

\* getVariableType that looks at the initializer before the annotation
getVariableType_InitializerFirst(declaration) ==
    IF declaration.initializer.kind # "none" THEN inferFromExpression(declaration.initializer)
    ELSE IF declaration.type.kind # "none" THEN mapTypeNode(declaration.type)
    ELSE Str("auto")

getVariableType(declaration) ==
    IF declaration.type.kind # "none" THEN mapTypeNode(declaration.type)
    ELSE IF declaration.initializer.kind # "none" THEN inferFromExpression(declaration.initializer)
    ELSE Str("auto")

getFunctionReturnType(func) ==
    IF func.type.kind # "none" THEN mapTypeNode(func.type)
    ELSE Str("auto")

\* getParameterType that infers from the default value of an unannotated parameter
getParameterType_Infer(param) ==
    IF param.type.kind # "none" THEN mapTypeNode(param.type)
    ELSE IF param.initializer.kind # "none" THEN inferFromExpression(param.initializer)
    ELSE Str("auto")

getParameterType(param) ==
    IF param.type.kind # "none" THEN mapTypeNode(param.type)
    ELSE Str("auto")

(* ------------------------------- inputs ------------------------------- *)

\* the sequences over S of length at most n
SeqsUpTo(S, n) == UNION {[1..k -> S] : k \in 0..n}

\* hi * 2^30 + lo + d as [hi, lo], for a small d
MagPlus(hi, lo, d) ==
    IF lo + d >= Base THEN [hi |-> hi + 1, lo |-> lo + d - Base]
    ELSE IF lo + d < 0 THEN [hi |-> hi - 1, lo |-> lo + d + Base]
    ELSE [hi |-> hi, lo |-> lo + d]

\* the magnitudes within MaxDelta of 0, 2^15, 2^31 and 2^53, and 42, 40000, 100000
Magnitudes ==
    {MagPlus(0, 0, d) : d \in 0..MaxDelta}
    \cup {MagPlus(0, 32768, d) : d \in (0 - MaxDelta)..MaxDelta}
    \cup {MagPlus(2, 0, d) : d \in (0 - MaxDelta)..MaxDelta}
    \cup {MagPlus(2 ^ 23, 0, d) : d \in (0 - MaxDelta)..MaxDelta}
    \cup {MagPlus(0, 42, 0), MagPlus(0, 40000, 0), MagPlus(0, 100000, 0)}

\* a double holds every integer up to 2^53, the even ones just above, and
\* fractions only well below
IsDouble(v) ==
    /\ v.hi < 2 ^ 23 \/ v.lo % 2 = 0
    /\ v.frac # << >> => v.hi < 2 ^ 22
    /\ v.neg => ~(v.hi = 0 /\ v.lo = 0 /\ v.frac = << >>)

Numbers ==
    {v \in {Fin(neg, m.hi, m.lo, frac) : neg \in BOOLEAN, m \in Magnitudes, frac \in {<< >>, <<5>>}} :
        IsDouble(v)}
    \cup {NaN, Infinity(FALSE), Infinity(TRUE)}

TypeNames == (DOMAIN TYPE_METADATA) \cup {"number", "Foo", "toString", "constructor"}

\* ---- type annotations

AnnotationTexts == (DOMAIN typeMap) \cup {"Foo", "Array<short>", "constructor", "toString"}

RECURSIVE ArraysOver(_, _)
ArraysOver(S, depth) ==
    IF depth = 0 THEN S
    ELSE LET inner == ArraysOver(S, depth - 1)
         IN  inner \cup {ArrayType(t) : t \in inner}

TupleElementTypes ==
    ArraysOver({NamedType(t) : t \in {"short", "int", "Foo"}}, 1)
    \cup {TupleType(<< >>), TupleType(<<NamedType("short")>>)}

TypeNodes ==
    ArraysOver({NamedType(t) : t \in AnnotationTexts}
               \cup {TupleType(e) : e \in SeqsUpTo(TupleElementTypes, MaxTupleLen)}, MaxDepth)

\* ---- expressions

Source(whole, dot, frac, exp, huge) ==
    [whole |-> whole, dot |-> dot, frac |-> frac, exp |-> exp, huge |-> huge]

\* 42, 42., 42.0, 42.5, 42.25, 42.50
FractionForms ==
    {[dot |-> FALSE, frac |-> << >>], [dot |-> TRUE, frac |-> << >>], [dot |-> TRUE, frac |-> <<0>>],
     [dot |-> TRUE, frac |-> <<5>>], [dot |-> TRUE, frac |-> <<2, 5>>], [dot |-> TRUE, frac |-> <<5, 0>>]}

\* literals with an exponent: 42e1, 4.5e-1, 1e400, ...
ExponentSources ==
    {Source(MagPlus(0, w, 0), f.dot, f.frac, e, FALSE) :
        w \in {0, 1, 42, 3276, 3277}, f \in FractionForms, e \in {0 - 1, 1}}
    \cup {Source(MagPlus(0, w, 0), FALSE, << >>, 1, TRUE) : w \in {0, 1}}

NumericSources ==
    {s \in {Source(m, f.dot, f.frac, 0, FALSE) : m \in Magnitudes, f \in FractionForms} :
        IsDouble(Fin(FALSE, s.whole.hi, s.whole.lo, StripTrailingZeros(s.frac)))}
    \cup ExponentSources

Num(lo, dot, frac) == NumericLiteral(Source(MagPlus(0, lo, 0), dot, frac, 0, FALSE))

ArgumentLists ==
    {<< >>, <<StringLiteral>>, <<Num(42, FALSE, << >>)>>, <<Num(1, TRUE, <<5>>)>>,
     <<OtherExpression("Identifier")>>}

CalleeNames == (DOMAIN typeConstructors) \cup {"foo", "Math.floor", "toString", "constructor"}

LeafExpressions ==
    {StringLiteral, TrueKeyword, FalseKeyword, OtherExpression("Identifier"),
     OtherExpression("PrefixUnaryExpression")}
    \cup {NumericLiteral(s) : s \in NumericSources}
    \cup {CallExpression(c, a) : c \in CalleeNames, a \in ArgumentLists}

FirstElements ==
    {StringLiteral, TrueKeyword, OtherExpression("OmittedExpression"),
     Num(42, FALSE, << >>), Num(42, TRUE, <<0>>), Num(1, TRUE, <<5>>), Num(100000, FALSE, << >>),
     CallExpression("int", <<StringLiteral>>), CallExpression("foo", << >>),
     CallExpression("toString", << >>)}

RestElements == {StringLiteral, Num(1, TRUE, <<5>>), OtherExpression("Identifier")}

RECURSIVE ArrayLiterals(_)
ArrayLiterals(depth) ==
    IF depth = 0 THEN {}
    ELSE {ArrayLiteralExpression(<< >>)}
         \cup {ArrayLiteralExpression(<<first>> \o rest) :
                   first \in FirstElements \cup ArrayLiterals(depth - 1),
                   rest \in SeqsUpTo(RestElements, MaxElems - 1)}

Expressions == LeafExpressions \cup ArrayLiterals(MaxDepth)

\* the initializers tried beside an annotation
SampleInitializers ==
    {None, StringLiteral, Num(42, FALSE, << >>), Num(1, TRUE, <<5>>),
     CallExpression("int", <<StringLiteral>>), ArrayLiteralExpression(<< >>)}

VariableDeclarations ==
    {VariableDeclaration(t, i) : t \in TypeNodes, i \in SampleInitializers}
    \cup {VariableDeclaration(None, i) : i \in Expressions \cup {None}}

FunctionDeclarations == {FunctionDeclaration(t) : t \in TypeNodes \cup {None}}

ParameterDeclarations ==
    {ParameterDeclaration(t, i) :
        t \in TypeNodes \cup {None}, i \in {None, StringLiteral, Num(42, FALSE, << >>)}}

\* ---- callable descriptors

VexFunction(name, returnType, parameters) ==
    [name |-> name, returnType |-> returnType, parameters |-> parameters]

Parameters ==
    {[name |-> n, type |-> t] : n \in {"a", "b"}, t \in {"int", "string", "Foo", "constructor"}}

VexFunctions ==
    {VexFunction(n, r, p) : n \in {"add", "f"}, r \in TypeNames, p \in SeqsUpTo(Parameters, MaxParams)}

(* ------------------------------- actions ------------------------------ *)

\* the descriptor of section 8 of the specification
AddFunction ==
    VexFunction("add", "int", <<[name |-> "a", type |-> "int"], [name |-> "b", type |-> "int"]>>)

\* the fields the constructor sets, for the source file temp.ts
NewTypeMapper == [program |-> "temp.ts", checker |-> "temp.ts"]

\* a TypeMapper and a parsed node, before any call
Init ==
    /\ op = "init"
    /\ arg \in VariableDeclarations \cup FunctionDeclarations \cup ParameterDeclarations
    /\ result = Undefined
    /\ metadata = TYPE_METADATA
    /\ fn = AddFunction
    /\ file = << >>
    /\ mapper = NewTypeMapper
    /\ history = << >>

\* a number and a type name, before any call
InitTypes ==
    /\ op = "init"
    /\ arg \in {[value |-> v, typeName |-> t] : v \in Numbers, t \in TypeNames}
    /\ result = Undefined
    /\ metadata = TYPE_METADATA
    /\ fn = AddFunction
    /\ file = << >>
    /\ mapper = NewTypeMapper
    /\ history = << >>

\* a constructed descriptor, before any call
InitFunction ==
    /\ op = "init"
    /\ arg = None
    /\ result = Undefined
    /\ metadata = TYPE_METADATA
    /\ fn \in VexFunctions
    /\ file = << >>
    /\ mapper = NewTypeMapper
    /\ history = << >>

\* no function of the library assigns to its argument, the table or a descriptor
Call(name, output) ==
    /\ op' = name
    /\ result' = output
    /\ UNCHANGED <<arg, metadata, fn, file, mapper, history>>

GetVariableType ==
    /\ arg.kind = "VariableDeclaration"
    /\ Call("getVariableType", getVariableType(arg))

GetFunctionReturnType ==
    /\ arg.kind = "FunctionDeclaration"
    /\ Call("getFunctionReturnType", getFunctionReturnType(arg))

GetParameterType ==
    /\ arg.kind = "ParameterDeclaration"
    /\ Call("getParameterType", getParameterType(arg))

CallInt == Call("int", int(arg.value))

CallShort == Call("short", short(arg.value))

CallLong == Call("long", long(arg.value))

IsWithinBounds ==
    Call("isWithinBounds", [type |-> "boolean", val |-> isWithinBounds(arg.value, arg.typeName)])

GetCppType == Call("getCppType", getCppType(arg.typeName))

GetCppSignature == Call("getCppSignature", getCppSignature(fn))

\* the TypeMapper
Next == GetVariableType \/ GetFunctionReturnType \/ GetParameterType

Spec == Init /\ [][Next]_vars

\* the constructors and the metadata functions
NextTypes == CallInt \/ CallShort \/ CallLong \/ IsWithinBounds \/ GetCppType

SpecTypes == InitTypes /\ [][NextTypes]_vars

\* the callable descriptor
NextFunction == GetCppSignature

SpecFunction == InitFunction /\ [][NextFunction]_vars

\* ---- a session: one TypeMapper, the declarations of one source file, several calls

\* the declarations a session's source file is made of
SessionNodes ==
    {VariableDeclaration(NamedType("int"), Num(1, TRUE, <<5>>)),
     VariableDeclaration(None, Num(42, FALSE, << >>)),
     VariableDeclaration(None, ArrayLiteralExpression(<<Num(100000, FALSE, << >>), StringLiteral>>)),
     VariableDeclaration(None, None),
     FunctionDeclaration(ArrayType(NamedType("short"))),
     FunctionDeclaration(NamedType("constructor")),
     ParameterDeclaration(None, Num(42, FALSE, << >>)),
     ParameterDeclaration(TupleType(<<NamedType("short"), NamedType("int")>>), None)}

\* a TypeMapper over a parsed source file, before any call
InitSession ==
    /\ op = "init"
    /\ arg = None
    /\ result = Undefined
    /\ metadata = TYPE_METADATA
    /\ fn = AddFunction
    /\ file \in SeqsUpTo(SessionNodes, MaxNodes) \ {<< >>}
    /\ mapper = NewTypeMapper
    /\ history = << >>

\* a call on the i-th declaration of the file: the methods read the node and
\* assign to no field of the mapper, of the node or of the table
SessionCall(i, name, output) ==
    /\ Len(history) < MaxCalls
    /\ op' = name
    /\ arg' = file[i]
    /\ result' = output
    /\ history' = Append(history, [index |-> i, op |-> name, result |-> output])
    /\ UNCHANGED <<metadata, fn, file, mapper>>

MapVariable ==
    \E i \in DOMAIN file :
        /\ file[i].kind = "VariableDeclaration"
        /\ SessionCall(i, "getVariableType", getVariableType(file[i]))

MapReturnType ==
    \E i \in DOMAIN file :
        /\ file[i].kind = "FunctionDeclaration"
        /\ SessionCall(i, "getFunctionReturnType", getFunctionReturnType(file[i]))

MapParameter ==
    \E i \in DOMAIN file :
        /\ file[i].kind = "ParameterDeclaration"
        /\ SessionCall(i, "getParameterType", getParameterType(file[i]))

NextSession == MapVariable \/ MapReturnType \/ MapParameter

SpecSession == InitSession /\ [][NextSession]_vars

(* ------------------------------- claims ------------------------------- *)

MapperOps == {"getVariableType", "getFunctionReturnType", "getParameterType"}

Annotated == arg.type.kind # "none"

\* an unannotated variable declaration with an initializer has been mapped
Inferred ==
    /\ op = "getVariableType"
    /\ arg.type.kind = "none"
    /\ arg.initializer.kind # "none"

\* C1: getVariableType returns the mapping of the annotation when there is one,
\* whatever the initializer; else the inference of the initializer when there is
\* one; else exactly "auto".
C1_Precedence ==
    op = "getVariableType" =>
        IF arg.type.kind # "none" THEN result = mapTypeNode(arg.type)
        ELSE IF arg.initializer.kind # "none" THEN result = inferFromExpression(arg.initializer)
        ELSE result = Str("auto")

\* an int annotation wins over a fractional initializer
C1_Witness ==
    /\ op = "getVariableType"
    /\ arg.type = NamedType("int")
    /\ arg.initializer = Num(1, TRUE, <<5>>)
    /\ result = Str("int32_t")

\* the integer representation the specification gives a whole value
SmallestIntegerType(value) ==
    IF GE(value, INT16_MIN) /\ LE(value, INT16_MAX) THEN "int16_t"
    ELSE IF GE(value, INT32_MIN) /\ LE(value, INT32_MAX) THEN "int32_t"
    ELSE "int64_t"

\* C2: a numeric literal whose lexical form contains '.' yields "double"; any
\* other numeric literal yields the smallest of int16_t, int32_t, int64_t that
\* contains its value, and never "double".
C2_NumericLiteral ==
    (Inferred /\ arg.initializer.kind = "NumericLiteral") =>
        IF arg.initializer.source.dot THEN result = Str("double")
        ELSE result = Str(SmallestIntegerType(parseFloat(NumericLiteralText(arg.initializer.source))))

\* the number of array levels around the innermost element type
RECURSIVE ArrayDepth(_)
ArrayDepth(typeNode) ==
    IF typeNode.kind = "ArrayType" THEN 1 + ArrayDepth(typeNode.elementType) ELSE 0

RECURSIVE ElementType(_)
ElementType(typeNode) ==
    IF typeNode.kind = "ArrayType" THEN ElementType(typeNode.elementType) ELSE typeNode

\* s inside k std::vector wrappers
RECURSIVE Vectors(_, _)
Vectors(k, s) == IF k = 0 THEN s ELSE "std::vector<" \o Vectors(k - 1, s) \o ">"

\* map(T1), ..., map(Tn) joined by ", ", from the last element back
RECURSIVE TupleBody(_, _)
TupleBody(elements, n) ==
    IF n = 0 THEN ""
    ELSE IF n = 1 THEN JSToString(mapTypeNode(elements[1]))
    ELSE TupleBody(elements, n - 1) \o ", " \o JSToString(mapTypeNode(elements[n]))

\* C3: an array-of-T annotation maps to std::vector< map(T) >, a tuple annotation
\* to std::tuple< map(T1), ..., map(Tn) > in the original order, and k array
\* levels around a type P give exactly k std::vector wrappers around map(P).
C3_StructuralMapping ==
    (op \in MapperOps /\ Annotated) =>
        /\ arg.type.kind = "ArrayType" =>
               result = Str("std::vector<" \o JSToString(mapTypeNode(arg.type.elementType)) \o ">")
        /\ arg.type.kind = "TupleType" =>
               result = Str("std::tuple<" \o TupleBody(arg.type.elements, Len(arg.type.elements)) \o ">")
        /\ ArrayDepth(arg.type) > 0 =>
               result = Str(Vectors(ArrayDepth(arg.type), JSToString(mapTypeNode(ElementType(arg.type)))))
        /\ arg.type = ArrayType(NamedType("short")) => result = Str("std::vector<int16_t>")
        /\ arg.type = ArrayType(ArrayType(NamedType("short"))) =>
               result = Str("std::vector<std::vector<int16_t>>")
        /\ arg.type = TupleType(<<NamedType("short"), NamedType("int")>>) =>
               result = Str("std::tuple<int16_t, int32_t>")

C3_Witness ==
    /\ op = "getVariableType"
    /\ arg.type = ArrayType(ArrayType(NamedType("short")))
    /\ result = Str("std::vector<std::vector<int16_t>>")

Primitives ==
    {"int16_t", "int32_t", "int64_t", "float", "double", "bool", "char", "std::string", "void", "auto"}

HasPrefix(s, prefix) == Len(s) >= Len(prefix) /\ SubSeq(s, 1, Len(prefix)) = prefix

\* the pieces of s between the separators ", " that lie outside every < >
RECURSIVE SplitTopLevel(_, _, _, _)
SplitTopLevel(s, i, depth, start) ==
    IF i > Len(s) THEN <<SubSeq(s, start, Len(s))>>
    ELSE LET c == SubSeq(s, i, i)
         IN  IF c = "<" THEN SplitTopLevel(s, i + 1, depth + 1, start)
             ELSE IF c = ">" THEN SplitTopLevel(s, i + 1, depth - 1, start)
             ELSE IF c = "," /\ depth = 0 /\ i < Len(s) /\ SubSeq(s, i + 1, i + 1) = " "
             THEN <<SubSeq(s, start, i - 1)>> \o SplitTopLevel(s, i + 2, depth, i + 2)
             ELSE SplitTopLevel(s, i + 1, depth, start)

\* s is a primitive of the target vocabulary, or std::vector<...> or
\* std::tuple<...> built from such strings
RECURSIVE InVocabulary(_)
InVocabulary(s) ==
    \/ s \in Primitives
    \/ /\ HasPrefix(s, "std::vector<")
       /\ SubSeq(s, Len(s), Len(s)) = ">"
       /\ InVocabulary(SubSeq(s, 13, Len(s) - 1))
    \/ /\ HasPrefix(s, "std::tuple<")
       /\ SubSeq(s, Len(s), Len(s)) = ">"
       /\ LET body == SubSeq(s, 12, Len(s) - 1)
              parts == SplitTopLevel(body, 1, 0, 1)
          IN  body = "" \/ \A k \in 1..Len(parts) : InVocabulary(parts[k])

\* C4: every mapping call returns a string of the target vocabulary, and a named
\* annotation whose text is not a key of the lexical table maps to "auto".
C4_Vocabulary ==
    op \in MapperOps =>
        /\ result.type = "string"
        /\ InVocabulary(result.val)
        /\ (Annotated /\ arg.type.kind = "NamedType" /\ arg.type.text \notin DOMAIN typeMap) =>
               result = Str("auto")

BoundedValueConstructors ==
    [int |-> "int32_t", short |-> "int16_t", long |-> "int64_t", float |-> "float",
     double |-> "double", bool |-> "bool", char |-> "char"]

LiteralKinds ==
    {"StringLiteral", "NumericLiteral", "TrueKeyword", "FalseKeyword", "ArrayLiteralExpression"}

\* C5: a call initializer yields the constructor's representation exactly when the
\* callee is one of the seven bounded value constructors, whatever the arguments;
\* any other call, and any expression that is no literal, yields "auto".
C5_CalleeName ==
    Inferred =>
        /\ arg.initializer.kind = "CallExpression" =>
               IF arg.initializer.expression \in DOMAIN BoundedValueConstructors
               THEN result = Str(BoundedValueConstructors[arg.initializer.expression])
               ELSE result = Str("auto")
        /\ arg.initializer.kind \notin LiteralKinds \cup {"CallExpression"} => result = Str("auto")

\* the inference along the first elements, written out
RECURSIVE FirstElementInference(_)
FirstElementInference(expr) ==
    IF expr.kind # "ArrayLiteralExpression" THEN JSToString(inferFromExpression(expr))
    ELSE IF expr.elements = << >> THEN "std::vector<auto>"
    ELSE "std::vector<" \o FirstElementInference(expr.elements[1]) \o ">"

\* C6: a non-empty array literal yields std::vector< infer(first element) >,
\* whatever the other elements are and however deep the first elements nest; an
\* empty one yields std::vector<auto>.
C6_ArrayLiteral ==
    (Inferred /\ arg.initializer.kind = "ArrayLiteralExpression") =>
        /\ result = Str(FirstElementInference(arg.initializer))
        /\ arg.initializer.elements = << >> => result = Str("std::vector<auto>")
        /\ arg.initializer.elements # << >> =>
               result = getVariableType(VariableDeclaration(None,
                            ArrayLiteralExpression(<<arg.initializer.elements[1]>>)))

\* a number first and a string second: the string does not count
C6_Witness ==
    /\ Inferred
    /\ arg.initializer =
           ArrayLiteralExpression(<<ArrayLiteralExpression(<<Num(42, FALSE, << >>), StringLiteral>>),
                                    StringLiteral>>)
    /\ result = Str("std::vector<std::vector<int16_t>>")

\* C7: getFunctionReturnType and getParameterType return the mapping of the
\* annotation, as getVariableType does, and "auto" without one, also for a
\* parameter with a default value.
C7_Signature ==
    op \in {"getFunctionReturnType", "getParameterType"} =>
        IF Annotated
        THEN /\ result = mapTypeNode(arg.type)
             /\ result = getVariableType(VariableDeclaration(arg.type, None))
        ELSE result = Str("auto")

C7_Witness ==
    /\ op = "getParameterType"
    /\ arg.type.kind = "none"
    /\ arg.initializer = Num(42, FALSE, << >>)
    /\ result = Str("auto")

IsWholeNumber(v) == v.k = "fin" /\ v.frac = << >>

\* what the specification asks of an integer constructor with bounds [min, max]
IntegerConstructor(v, min, max) ==
    IF ~IsWholeNumber(v) THEN Throw("TypeError")
    ELSE IF NumCmp(v, min) < 0 \/ NumCmp(v, max) > 0 THEN Throw("RangeError")
    ELSE Return(v)

\* C8: short, int and long fail with TypeError on every value that is not a whole
\* number (also one out of range, infinite or NaN), with RangeError on a whole
\* number outside the type's bounds, and otherwise return the value unchanged;
\* short accepts 32767 and -32768 and rejects 32768 and -32769.
C8_IntegerConstructors ==
    /\ op = "short" => result = IntegerConstructor(arg.value, Whole(TRUE, 0, 32768), Whole(FALSE, 0, 32767))
    /\ op = "int" => result = IntegerConstructor(arg.value, Whole(TRUE, 2, 0), Whole(FALSE, 1, Base - 1))
    /\ op = "long" =>
           result = IntegerConstructor(arg.value, Whole(TRUE, 2 ^ 23 - 1, Base - 1),
                                       Whole(FALSE, 2 ^ 23 - 1, Base - 1))
    /\ (op = "short" /\ arg.value \in {Whole(FALSE, 0, 32767), Whole(TRUE, 0, 32768)}) =>
           result = Return(arg.value)
    /\ (op = "short" /\ arg.value \in {Whole(FALSE, 0, 32768), Whole(TRUE, 0, 32769)}) =>
           result = Throw("RangeError")
    /\ (op \in {"short", "int", "long"} /\ arg.value \in {NaN, Infinity(FALSE), Infinity(TRUE)}) =>
           result = Throw("TypeError")

\* short(32768) has failed with RangeError
C8_Witness ==
    /\ op = "short"
    /\ arg.value = Whole(FALSE, 0, 32768)
    /\ result = Throw("RangeError")

\* the primitive types that declare bounds, with their bounds
DeclaredBounds ==
    [int |-> <<Whole(TRUE, 2, 0), Whole(FALSE, 1, Base - 1)>>,
     short |-> <<Whole(TRUE, 0, 32768), Whole(FALSE, 0, 32767)>>,
     long |-> <<Whole(TRUE, 2 ^ 23 - 1, Base - 1), Whole(FALSE, 2 ^ 23 - 1, Base - 1)>>]

\* C9: isWithinBounds is true for every type name without declared bounds, and
\* for int, short and long it is true exactly when min <= value <= max.
C9_WithinBounds ==
    op = "isWithinBounds" =>
        /\ arg.typeName \notin DOMAIN DeclaredBounds => result.val = TRUE
        /\ arg.typeName \in DOMAIN DeclaredBounds =>
               result.val = (/\ arg.value.k # "nan"
                             /\ NumCmp(DeclaredBounds[arg.typeName][1], arg.value) <= 0
                             /\ NumCmp(arg.value, DeclaredBounds[arg.typeName][2]) <= 0)
        /\ arg = [value |-> Whole(FALSE, 0, 40000), typeName |-> "short"] => result.val = FALSE
        /\ arg = [value |-> Whole(FALSE, 0, 40000), typeName |-> "long"] => result.val = TRUE
        /\ arg = [value |-> Whole(FALSE, 0, 1), typeName |-> "string"] => result.val = TRUE

\* isWithinBounds(40000, "short") has returned false
C9_Witness ==
    /\ op = "isWithinBounds"
    /\ arg = [value |-> Whole(FALSE, 0, 40000), typeName |-> "short"]
    /\ result.val = FALSE

\* the table's representation of a type name, "auto" for a name it lacks
TargetRepresentation(typeName) ==
    IF typeName \in DOMAIN TYPE_METADATA THEN TYPE_METADATA[typeName].val.cppType ELSE "auto"

\* the parameters from the n-th on, each "<type> <name>", separated by ", "
RECURSIVE ParameterList(_, _)
ParameterList(parameters, n) ==
    IF n > Len(parameters) THEN ""
    ELSE TargetRepresentation(parameters[n].type) \o " " \o parameters[n].name
         \o (IF n < Len(parameters) THEN ", " ELSE "") \o ParameterList(parameters, n + 1)

\* the signature of the descriptor in the current state
SignatureRendered ==
    op = "getCppSignature" =>
        /\ result = Str(TargetRepresentation(fn.returnType) \o " " \o fn.name \o "("
                        \o ParameterList(fn.parameters, 1) \o ")")
        /\ fn.parameters = << >> =>
               result = Str(TargetRepresentation(fn.returnType) \o " " \o fn.name \o "()")
        /\ fn = AddFunction => result = Str("int32_t add(int32_t a, int32_t b)")

\* C10: getCppSignature returns "<return type> <name>(<type> <name>, ...)" with
\* the parameters in their declared order and "auto" for a type name the table
\* lacks, and leaves the descriptor and the metadata table as they were.
C10_Signature ==
    /\ [](SignatureRendered)
    /\ [][op' = "getCppSignature" => (fn' = fn /\ metadata' = metadata)]_vars

\* the signature of add has been rendered
C10_Witness ==
    /\ op = "getCppSignature"
    /\ fn = AddFunction
    /\ result = Str("int32_t add(int32_t a, int32_t b)")

\* two calls of the session were the same method on declarations of the same shape
SameCall(a, b) == a.op = b.op /\ file[a.index] = file[b.index]

\* every call so far returned what the same call returned before
HistoryIndependent ==
    \A a \in DOMAIN history : \A b \in DOMAIN history :
        SameCall(history[a], history[b]) => history[a].result = history[b].result

ConstructorNames == {"int", "short", "long", "float", "double", "bool", "char"}

\* C12: a declaration annotated with a key n of TYPE_METADATA maps to
\* getCppType(n), the table's cppType, and a call initializer whose callee is one
\* of the seven constructor names is inferred as getCppType of that name.
C12_AgreesWithMetadata ==
    /\ (op \in MapperOps /\ Annotated /\ arg.type.kind = "NamedType"
            /\ arg.type.text \in DOMAIN TYPE_METADATA) =>
           /\ result = getCppType(arg.type.text)
           /\ result = Str(TYPE_METADATA[arg.type.text].val.cppType)
    /\ (Inferred /\ arg.initializer.kind = "CallExpression"
            /\ arg.initializer.expression \in ConstructorNames) =>
           /\ result = getCppType(arg.initializer.expression)
           /\ result = Str(TYPE_METADATA[arg.initializer.expression].val.cppType)

\* a declaration annotated long has been mapped to the table's int64_t
C12_Witness ==
    /\ op = "getVariableType"
    /\ arg.type = NamedType("long")
    /\ result = getCppType("long")
    /\ result = Str("int64_t")

====
